---- MODULE Spec2Model ----
(***************************************************************************)
(* Pod metrics table hook (usePodMetricsTable) and its series reduction    *)
(* (seriesToPodNodeMetricsRow).                                            *)
(*                                                                         *)
(* JavaScript numbers are modelled as exact rationals [num, den] in lowest *)
(* terms; null and undefined are the two distinct values Null, Undefined.  *)
(***************************************************************************)
EXTENDS Integers, Sequences, FiniteSets, TLC

VARIABLES
  now,               \* the reading Date.now() would give
  series,            \* SpecRow: the MetricsExplorerSeries under reduction
  row,               \* SpecRow: the last PodNodeMetricsRow computed from series
  prevRow,           \* SpecRow: the PodNodeMetricsRow computed before row
  rowAt,             \* SpecRow: the clock reading row was computed at
  prevRowAt,         \* SpecRow: the clock reading prevRow was computed at
  timerange,         \* hook prop
  filterClauseDsl,   \* hook prop
  currentPageIndex,  \* useState
  sortState,         \* useState
  status,            \* shared fetch hook: Fetching, Ready or Failed
  inflight,          \* requests issued and not yet settled
  latest,            \* id of the request issued last
  data,              \* rows exposed by the hook
  dataFor,           \* the request whose response data holds (NoRequest: none)
  lastSettled,       \* id of the request that settled last (0: none yet)
  lastCall,          \* the last change of a prop or call of a setter, with its argument
  items,             \* scripted fields Table: the items prop
  triggered,         \* scripted fields Table: the actions triggered, in order
  editFieldCalls,    \* scripted fields Table: the items editField was called for
  deleteFieldCalls,  \* scripted fields Table: the items deleteField was called for
  tabsMounted,       \* Tabs: whether the component is mounted
  closeEditorHandler,\* Tabs: closeEditorHandler.current
  openEditorCalls,   \* Tabs: the fieldName of each dataViewFieldEditor.openEditor call
  closedEditors,     \* Tabs: the close handlers invoked, each by the number of its call
  savedDataViews,    \* EditIndexPattern: the data views stored, as getIdsWithTitle lists them
  uiDefaultIndex,    \* EditIndexPattern: the uiSettings value of 'defaultIndex'
  defaultIndex,      \* EditIndexPattern: useState(uiSettings.get('defaultIndex'))
  userEditPermission,\* EditIndexPattern: capabilities.indexPatterns.save
  route,             \* EditIndexPattern: the location history holds
  removals,          \* EditIndexPattern: the removePattern calls, each with its progress
  calls              \* EditIndexPattern: the service calls made by each removePattern call

rowVars == <<series, row, prevRow, rowAt, prevRowAt>>
hookVars == <<timerange, filterClauseDsl, currentPageIndex, sortState,
              status, inflight, latest, data, dataFor, lastSettled, lastCall>>
tableVars == <<items, triggered, editFieldCalls, deleteFieldCalls>>
tabsVars == <<tabsMounted, closeEditorHandler, openEditorCalls, closedEditors>>
editVars == <<savedDataViews, uiDefaultIndex, defaultIndex, userEditPermission,
              route, removals, calls>>
pageVars == <<tableVars, tabsVars, editVars>>
vars == <<now, series, row, prevRow, rowAt, prevRowAt, timerange, filterClauseDsl,
          currentPageIndex, sortState, status, inflight, latest, data, dataFor,
          lastSettled, lastCall, items, triggered, editFieldCalls, deleteFieldCalls,
          tabsMounted, closeEditorHandler, openEditorCalls, closedEditors,
          savedDataViews, uiDefaultIndex, defaultIndex, userEditPermission,
          route, removals, calls>>

----------------------------------------------------------------------------
(* Bounds *)

MaxRows == 2
MaxTicks == 1
MaxRequests == 3
MaxPage == 1
Clock0 == 1000

----------------------------------------------------------------------------
(* JavaScript values *)

Null == [js |-> "null"]
Undefined == [js |-> "undefined"]
TypeError == [js |-> "TypeError"]
NotComputed == [js |-> "not computed"]
Str(s) == [str |-> s]
Arr(a) == [arr |-> a]

RECURSIVE GCD(_, _)
GCD(a, b) == IF b = 0 THEN a ELSE GCD(b, a % b)

Abs(n) == IF n < 0 THEN 0 - n ELSE n

Rat(n, d) == LET g == GCD(Abs(n), d) IN [num |-> n \div g, den |-> d \div g]

Num(n) == Rat(n, 1)

NumAdd(a, b) == Rat(a.num * b.den + b.num * a.den, a.den * b.den)

NumSub(a, b) == Rat(a.num * b.den - b.num * a.den, a.den * b.den)

NumMul(a, b) == Rat(a.num * b.num, a.den * b.den)

NumDiv(a, b) == Rat(a.num * b.den, a.den * b.num)

\* faulty variant: Math.round in place of Math.floor
MathRound(a) == Num((2 * a.num + a.den) \div (2 * a.den))

MathFloor(a) == Num(a.num \div a.den)

\* faulty variant: the first element in place of the last
AtFirst(arr) == IF Len(arr) = 0 THEN Undefined ELSE arr[1]

\* Array.prototype.at(-1)
AtLast(arr) == IF Len(arr) = 0 THEN Undefined ELSE arr[Len(arr)]

\* arr[i] of a JavaScript array, i counted from 0
AtIndex(a, i) == IF i + 1 \in DOMAIN a.arr THEN a.arr[i + 1] ELSE Undefined

\* a ?? b
NullishCoalesce(a, b) == IF a = Null \/ a = Undefined THEN b ELSE a

\* const [x, y] = arr
Destructure2(a) ==
  IF a = Null \/ a = Undefined THEN TypeError
  ELSE <<AtIndex(a, 0), AtIndex(a, 1)>>

----------------------------------------------------------------------------
(* podMetricsQueryConfig and the field lookup *)

StartTimeField == "kubernetes.pod.start_time"
CpuField == "kubernetes.pod.cpu.usage.limit.pct"
MemoryField == "kubernetes.pod.memory.usage.bytes"

PodMetricsField == {StartTimeField, CpuField, MemoryField}

\* metricsMap, in declaration order
metricsMap == <<StartTimeField, CpuField, MemoryField>>

\* createMetricByFieldLookup: each field's column of a MetricsExplorerRow
metricByField ==
  [f \in PodMetricsField |->
     IF f = metricsMap[1] THEN "metric_0"
     ELSE IF f = metricsMap[2] THEN "metric_1" ELSE "metric_2"]

\* makeUnpackMetric(metricByField): the row's value in the field's column
unpackMetric(r, f) == r[metricByField[f]]

averageOfValues(values) ==
  LET sum[i \in 0..Len(values)] ==
        IF i = 0 THEN Num(0) ELSE NumAdd(sum[i - 1], values[i])
  IN NumDiv(sum[Len(values)], Num(Len(values)))

scaleUpPercentage(unscaled) == NumMul(unscaled, Num(100))

----------------------------------------------------------------------------
(* seriesToPodNodeMetricsRow *)

unpackMetrics(r) ==
  [startTime |-> unpackMetric(r, StartTimeField),
   averageCpuUsagePercent |-> unpackMetric(r, CpuField),
   averageMemoryUsageMegabytes |-> unpackMetric(r, MemoryField)]

\* if (v !== null) values.push(v)
PushUnlessNull(values, v) == IF v # Null THEN Append(values, v) ELSE values

\* faulty variant: a row without a start time is skipped as a whole
collectMetricValuesSkipRow(rows) ==
  LET acc[i \in 0..Len(rows)] ==
        IF i = 0
        THEN [startTimeValues |-> <<>>,
              averageCpuUsagePercentValues |-> <<>>,
              averageMemoryUsageMegabytesValues |-> <<>>]
        ELSE LET m == unpackMetrics(rows[i])
                 a == acc[i - 1]
             IN IF m.startTime = Null THEN a
                ELSE [startTimeValues |-> Append(a.startTimeValues, m.startTime),
                      averageCpuUsagePercentValues |->
                        PushUnlessNull(a.averageCpuUsagePercentValues,
                                       m.averageCpuUsagePercent),
                      averageMemoryUsageMegabytesValues |->
                        PushUnlessNull(a.averageMemoryUsageMegabytesValues,
                                       m.averageMemoryUsageMegabytes)]
  IN acc[Len(rows)]

\* rows.forEach over the three arrays
collectMetricValues(rows) ==
  LET acc[i \in 0..Len(rows)] ==
        IF i = 0
        THEN [startTimeValues |-> <<>>,
              averageCpuUsagePercentValues |-> <<>>,
              averageMemoryUsageMegabytesValues |-> <<>>]
        ELSE LET m == unpackMetrics(rows[i])
                 a == acc[i - 1]
             IN [startTimeValues |-> PushUnlessNull(a.startTimeValues, m.startTime),
                 averageCpuUsagePercentValues |->
                   PushUnlessNull(a.averageCpuUsagePercentValues,
                                  m.averageCpuUsagePercent),
                 averageMemoryUsageMegabytesValues |->
                   PushUnlessNull(a.averageMemoryUsageMegabytesValues,
                                  m.averageMemoryUsageMegabytes)]
  IN acc[Len(rows)]

bytesPerMegabyte == 1000000

\* faulty variant: startTime - Date.now()
uptimeReversed(startTimeValues, dateNow) ==
  IF Len(startTimeValues) # 0
  THEN NumSub(AtLast(startTimeValues), Num(dateNow))
  ELSE Null

uptime(startTimeValues, dateNow) ==
  IF Len(startTimeValues) # 0
  THEN NumSub(Num(dateNow), AtLast(startTimeValues))
  ELSE Null

\* faulty variant: the average is left a fraction
averageCpuUsagePercentUnscaled(values) ==
  IF Len(values) # 0 THEN averageOfValues(values) ELSE Null

\* faulty variant: let averageCpuUsagePercent = 0
averageCpuUsagePercentFromZero(values) ==
  IF Len(values) # 0 THEN scaleUpPercentage(averageOfValues(values)) ELSE Num(0)

averageCpuUsagePercent(values) ==
  IF Len(values) # 0 THEN scaleUpPercentage(averageOfValues(values)) ELSE Null

averageMemoryUsageMegabytes(values) ==
  IF Len(values) # 0
  THEN LET averageInBytes == averageOfValues(values)
       IN MathFloor(NumDiv(averageInBytes, Num(bytesPerMegabyte)))
  ELSE Null

calculateMetricAverages(rows, dateNow) ==
  LET c == collectMetricValues(rows) IN
  [uptime |-> uptime(c.startTimeValues, dateNow),
   averageCpuUsagePercent |-> averageCpuUsagePercent(c.averageCpuUsagePercentValues),
   averageMemoryUsageMegabytes |->
     averageMemoryUsageMegabytes(c.averageMemoryUsageMegabytesValues)]

\* faulty variant: id and name exchanged
rowWithoutMetricsSwapped(id, name) ==
  [id |-> name, name |-> id, uptime |-> Null,
   averageCpuUsagePercent |-> Null, averageMemoryUsageMegabytes |-> Null]

rowWithoutMetrics(id, name) ==
  [id |-> id, name |-> name, uptime |-> Null,
   averageCpuUsagePercent |-> Null, averageMemoryUsageMegabytes |-> Null]

\* faulty variant: const [id, name] = series.keys
seriesKeysNoFallback(s) == Destructure2(s.keys)

\* const [id, name] = series.keys ?? []
seriesKeys(s) == Destructure2(NullishCoalesce(s.keys, Arr(<<>>)))

seriesToPodNodeMetricsRow(s, dateNow) ==
  LET k == seriesKeys(s) IN
  IF k = TypeError THEN TypeError
  ELSE IF Len(s.rows) = 0 THEN rowWithoutMetrics(k[1], k[2])
  ELSE LET m == calculateMetricAverages(s.rows, dateNow) IN
       [id |-> k[1], name |-> k[2], uptime |-> m.uptime,
        averageCpuUsagePercent |-> m.averageCpuUsagePercent,
        averageMemoryUsageMegabytes |-> m.averageMemoryUsageMegabytes]

----------------------------------------------------------------------------
(* Inputs of the reduction *)

StartTimes == {Num(100), Num(500)}
CpuRatios == {Rat(1, 10), Rat(3, 10)}
MemoryBytes == {Num(2500000), Num(4000000)}

MetricsExplorerRow ==
  [metric_0 : StartTimes \cup {Null},
   metric_1 : CpuRatios \cup {Null},
   metric_2 : MemoryBytes \cup {Null}]

SeqUpTo(S, n) == UNION {[1..k -> S] : k \in 0..n}

KeyTuples == {Undefined, Arr(<<Str("uid-1")>>), Arr(<<Str("uid-1"), Str("pod-a")>>)}

MetricsExplorerSeries ==
  [keys : KeyTuples, rows : SeqUpTo(MetricsExplorerRow, MaxRows)]

NoSeries == [keys |-> Undefined, rows |-> <<>>]

----------------------------------------------------------------------------
(* The reduction applied to one series, again and again, as the clock runs *)

Tick ==
  /\ now < Clock0 + MaxTicks
  /\ now' = now + 1
  /\ UNCHANGED <<rowVars, hookVars, pageVars>>

Transform ==
  /\ row' = seriesToPodNodeMetricsRow(series, now)
  /\ prevRow' = row
  /\ rowAt' = now
  /\ prevRowAt' = rowAt
  /\ UNCHANGED <<now, series, hookVars, pageVars>>

----------------------------------------------------------------------------
(* usePodMetricsTable over the shared fetch hook *)

TimeRanges == {"last 15 minutes", "last 1 hour"}
FilterClauses == {"no filter", "namespace: default"}
SortStates ==
  {[field |-> "averageCpuUsagePercent", direction |-> "desc"],
   [field |-> "averageCpuUsagePercent", direction |-> "asc"],
   [field |-> "uptime", direction |-> "desc"]}

SampleA ==
  [keys |-> Arr(<<Str("uid-1"), Str("pod-a")>>),
   rows |-> <<[metric_0 |-> Num(100), metric_1 |-> Rat(1, 10), metric_2 |-> Num(2500000)],
              [metric_0 |-> Num(500), metric_1 |-> Rat(3, 10), metric_2 |-> Num(4000000)]>>]

SampleB == [keys |-> Arr(<<Str("uid-2"), Str("pod-b")>>), rows |-> <<>>]

\* what the metrics query service may answer
Responses == {<<SampleA>>, <<SampleA, SampleB>>}

NoRequest == [id |-> 0]

\* metricsToApiOptions(podMetricsQueryConfig, filterClauseDsl)
metricsToApiOptions(config, filter) == [options |-> [config |-> config, filterQuery |-> filter]]

\* faulty variant: currentPageIndex is not handed on
nodeMetricsArgsNoPage(t, f, s, p) ==
  [metricsExplorerOptions |-> metricsToApiOptions("podMetricsQueryConfig", f).options,
   timerange |-> t,
   sortState |-> s,
   currentPageIndex |-> 0]

\* the argument usePodMetricsTable hands to useInfrastructureNodeMetrics
nodeMetricsArgs(t, f, s, p) ==
  [metricsExplorerOptions |-> metricsToApiOptions("podMetricsQueryConfig", f).options,
   timerange |-> t,
   sortState |-> s,
   currentPageIndex |-> p]

\* isLoading of the shared fetch hook
isLoading == status = "Fetching"

\* faulty variant: the failure is handed on
usePodMetricsTableWithError ==
  [currentPageIndex |-> currentPageIndex,
   data |-> data,
   error |-> status = "Failed",
   isLoading |-> isLoading,
   sortState |-> sortState,
   timerange |-> timerange]

\* what usePodMetricsTable returns (its two setters are the actions below)
usePodMetricsTable ==
  [currentPageIndex |-> currentPageIndex,
   data |-> data,
   isLoading |-> isLoading,
   sortState |-> sortState,
   timerange |-> timerange]

MapTransform(resp, dateNow) ==
  [i \in DOMAIN resp |-> seriesToPodNodeMetricsRow(resp[i], dateNow)]

\* a render: when the arguments differ from those of the last render, one fetch
\* is issued for them and supersedes the ones in flight
Render(t, f, s, p) ==
  /\ timerange' = t
  /\ filterClauseDsl' = f
  /\ sortState' = s
  /\ currentPageIndex' = p
  /\ IF nodeMetricsArgs(t, f, s, p)
        # nodeMetricsArgs(timerange, filterClauseDsl, sortState, currentPageIndex)
     THEN /\ latest < MaxRequests
          /\ latest' = latest + 1
          /\ inflight' = inflight \cup
                           {[id |-> latest + 1, args |-> nodeMetricsArgs(t, f, s, p)]}
          /\ status' = "Fetching"
     ELSE UNCHANGED <<latest, inflight, status>>
  /\ UNCHANGED <<now, rowVars, pageVars, data, dataFor, lastSettled>>

SetTimerange(t) ==
  /\ t # timerange
  /\ lastCall' = [op |-> "timerange", arg |-> Str(t)]
  /\ Render(t, filterClauseDsl, sortState, currentPageIndex)

SetFilterClauseDsl(f) ==
  /\ f # filterClauseDsl
  /\ lastCall' = [op |-> "filterClauseDsl", arg |-> Str(f)]
  /\ Render(timerange, f, sortState, currentPageIndex)

setCurrentPageIndex(p) ==
  /\ p # currentPageIndex
  /\ lastCall' = [op |-> "setCurrentPageIndex", arg |-> Num(p)]
  /\ Render(timerange, filterClauseDsl, sortState, p)

\* faulty variant: a new sort goes back to the first page
setSortStateResetsPage(s) ==
  /\ s # sortState
  /\ lastCall' = [op |-> "setSortState", arg |-> s]
  /\ Render(timerange, filterClauseDsl, s, 0)

setSortState(s) ==
  /\ s # sortState
  /\ lastCall' = [op |-> "setSortState", arg |-> s]
  /\ Render(timerange, filterClauseDsl, s, currentPageIndex)

\* whether the shared hook takes the settlement of request r
Accepts(r) == r.id = latest

Resolve(r, resp) ==
  /\ r \in inflight
  /\ inflight' = inflight \ {r}
  /\ lastSettled' = r.id
  /\ IF Accepts(r)
     THEN /\ status' = "Ready"
          /\ data' = MapTransform(resp, now)
          /\ dataFor' = r
     ELSE UNCHANGED <<status, data, dataFor>>
  /\ UNCHANGED <<now, rowVars, pageVars, timerange, filterClauseDsl,
                 currentPageIndex, sortState, latest, lastCall>>

Reject(r) ==
  /\ r \in inflight
  /\ inflight' = inflight \ {r}
  /\ lastSettled' = r.id
  /\ IF Accepts(r)
     THEN /\ status' = "Failed"
          /\ data' = <<>>
          /\ dataFor' = NoRequest
     ELSE UNCHANGED <<status, data, dataFor>>
  /\ UNCHANGED <<now, rowVars, pageVars, timerange, filterClauseDsl,
                 currentPageIndex, sortState, latest, lastCall>>

HookInit ==
  /\ timerange \in TimeRanges
  /\ filterClauseDsl \in FilterClauses
  /\ currentPageIndex = 0
  /\ sortState = [field |-> "averageCpuUsagePercent", direction |-> "desc"]
  /\ status = "Fetching"
  /\ latest = 1
  /\ inflight = {[id |-> 1,
                  args |-> nodeMetricsArgs(timerange, filterClauseDsl,
                                           sortState, currentPageIndex)]}
  /\ data = <<>>
  /\ dataFor = NoRequest
  /\ lastSettled = 0
  /\ lastCall = [op |-> "first render", arg |-> Undefined]

RowIdle ==
  /\ series = NoSeries
  /\ row = NotComputed
  /\ prevRow = NotComputed
  /\ rowAt = 0
  /\ prevRowAt = 0

HookIdle ==
  /\ timerange = "last 15 minutes"
  /\ filterClauseDsl = "no filter"
  /\ currentPageIndex = 0
  /\ sortState = [field |-> "averageCpuUsagePercent", direction |-> "desc"]
  /\ status = "Fetching"
  /\ latest = 1
  /\ inflight = {}
  /\ data = <<>>
  /\ dataFor = NoRequest
  /\ lastSettled = 0
  /\ lastCall = [op |-> "first render", arg |-> Undefined]

----------------------------------------------------------------------------
(* The scripted fields Table, as its tests use it *)

MaxItems == 2
MaxClicks == 3

ScriptedFieldItem ==
  [name : {"1", "2"}, lang : {"Elastic"}, script : {""}, isUserEditable : BOOLEAN]

\* the items of the tests
testItems ==
  <<[name |-> "1", lang |-> "Elastic", script |-> "", isUserEditable |-> TRUE],
    [name |-> "2", lang |-> "Elastic", script |-> "", isUserEditable |-> FALSE]>>

\* faulty variant: both actions call editField
actionsBothEdit ==
  <<[name |-> "Edit", onClick |-> "editField"],
    [name |-> "Delete", onClick |-> "editField"]>>

\* columns[4].actions: the edit action, then the delete action
actions ==
  <<[name |-> "Edit", onClick |-> "editField"],
    [name |-> "Delete", onClick |-> "deleteField"]>>

\* faulty variant: the delete action is offered for every item
availableDeleteAlways(k, item) == k = 2 \/ item.isUserEditable

\* columns[4].actions[k - 1].available(item)
available(k, item) == item.isUserEditable

\* the user triggers action k of the row of items[i]
Trigger(k, i) ==
  /\ Len(triggered) < MaxClicks
  /\ i \in DOMAIN items
  /\ available(k, items[i])
  /\ triggered' = Append(triggered, [action |-> k, item |-> items[i]])
  /\ IF actions[k].onClick = "editField"
     THEN /\ editFieldCalls' = Append(editFieldCalls, items[i])
          /\ UNCHANGED deleteFieldCalls
     ELSE /\ deleteFieldCalls' = Append(deleteFieldCalls, items[i])
          /\ UNCHANGED editFieldCalls
  /\ UNCHANGED <<now, rowVars, hookVars, items, tabsVars, editVars>>

TableIdle ==
  /\ items = testItems
  /\ triggered = <<>>
  /\ editFieldCalls = <<>>
  /\ deleteFieldCalls = <<>>

----------------------------------------------------------------------------
(* Tabs: the field editor and its close handler *)

MaxOpens == 4

FieldNames == {Undefined, Str("bytes"), Str("@timestamp")}

\* dataViewFieldEditor.openEditor(...): the close handler of the n-th call
openEditor(n) == [close |-> n]

\* faulty variant: a handler already held is kept
openFieldEditorKeepsFirst(fieldName) ==
  /\ tabsMounted
  /\ Len(openEditorCalls) < MaxOpens
  /\ openEditorCalls' = Append(openEditorCalls, fieldName)
  /\ closeEditorHandler' = IF closeEditorHandler = Undefined
                           THEN openEditor(Len(openEditorCalls) + 1)
                           ELSE closeEditorHandler
  /\ UNCHANGED <<now, rowVars, hookVars, tableVars, editVars, tabsMounted,
                 closedEditors>>

openFieldEditor(fieldName) ==
  /\ tabsMounted
  /\ Len(openEditorCalls) < MaxOpens
  /\ openEditorCalls' = Append(openEditorCalls, fieldName)
  /\ closeEditorHandler' = openEditor(Len(openEditorCalls) + 1)
  /\ UNCHANGED <<now, rowVars, hookVars, tableVars, editVars, tabsMounted,
                 closedEditors>>

\* closeFieldEditor: the handlers invoked once it has run
closeFieldEditor ==
  IF closeEditorHandler # Undefined
  THEN Append(closedEditors, closeEditorHandler.close)
  ELSE closedEditors

\* the cleanup of the effect on [closeFieldEditor], which runs at the unmount
Unmount ==
  /\ tabsMounted
  /\ tabsMounted' = FALSE
  /\ closedEditors' = closeFieldEditor
  /\ UNCHANGED <<now, rowVars, hookVars, tableVars, editVars, closeEditorHandler,
                 openEditorCalls>>

TabsIdle ==
  /\ tabsMounted = TRUE
  /\ closeEditorHandler = Undefined
  /\ openEditorCalls = <<>>
  /\ closedEditors = <<>>

----------------------------------------------------------------------------
(* EditIndexPattern: setDefaultPattern and removePattern *)

MaxRemovals == 2

\* indexPattern, the data view the page edits
indexPattern == [id |-> "logs", title |-> "logs-*"]

OtherDataViews == {[id |-> "metrics", title |-> "metrics-*"],
                   [id |-> "traces", title |-> "traces-*"]}

\* 'defaultIndex' without a value
Unset == "(unset)"

\* what the store may hold: the data view of the page among others, in any order
Stores ==
  {st \in SeqUpTo(OtherDataViews \cup {indexPattern}, 3) :
     /\ \E i \in DOMAIN st : st[i] = indexPattern
     /\ \A i, j \in DOMAIN st : st[i] = st[j] => i = j}

\* the page is shown until history.push('')
EditMounted == route = "patterns/logs"

\* a confirmation dialog is open
ModalOpen == \E i \in DOMAIN removals : removals[i].pc = "confirming"

\* uiSettings.set('defaultIndex', indexPattern.id); setDefaultIndex(indexPattern.id)
setDefaultPattern ==
  /\ EditMounted
  /\ ~ModalOpen
  /\ uiDefaultIndex' = indexPattern.id
  /\ defaultIndex' = indexPattern.id
  /\ UNCHANGED <<now, rowVars, hookVars, tableVars, tabsVars, savedDataViews,
                 userEditPermission, route, removals, calls>>

\* removePattern up to overlays.openConfirm; doRemove closes over defaultIndex
removePattern ==
  /\ EditMounted
  /\ ~ModalOpen
  /\ userEditPermission
  /\ Len(removals) < MaxRemovals
  /\ removals' = Append(removals,
                        [pc |-> "confirming", isConfirmed |-> FALSE,
                         defaultIndex |-> defaultIndex, indexPatterns |-> <<>>])
  /\ UNCHANGED <<now, rowVars, hookVars, tableVars, tabsVars, savedDataViews,
                 uiDefaultIndex, defaultIndex, userEditPermission, route, calls>>

\* faulty variant: doRemove runs whatever the dialog answers
proceedsAlways(isConfirmed) == TRUE

\* if (isConfirmed)
proceeds(isConfirmed) == isConfirmed

\* the dialog of call i answers; doRemove runs to its first await
ConfirmResolves(i, isConfirmed) ==
  /\ i \in DOMAIN removals
  /\ removals[i].pc = "confirming"
  /\ IF ~proceeds(isConfirmed)
     THEN /\ removals' = [removals EXCEPT ![i].pc = "cancelled",
                                          ![i].isConfirmed = isConfirmed]
          /\ UNCHANGED calls
     ELSE IF indexPattern.id = removals[i].defaultIndex
     THEN /\ removals' = [removals EXCEPT ![i].pc = "awaitIds",
                                          ![i].isConfirmed = isConfirmed]
          /\ UNCHANGED calls
     ELSE /\ removals' = [removals EXCEPT ![i].pc = "deleting",
                                          ![i].isConfirmed = isConfirmed]
          /\ calls' = calls \cup {[call |-> i, fn |-> "dataViews.delete"]}
  /\ UNCHANGED <<now, rowVars, hookVars, tableVars, tabsVars, savedDataViews,
                 uiDefaultIndex, defaultIndex, userEditPermission, route>>

\* faulty variant: the data view under removal is not filtered out
otherPatternsUnfiltered(indexPatterns) == indexPatterns

\* filter(indexPatterns, (pattern) => pattern.id !== indexPattern.id)
otherPatterns(indexPatterns) ==
  SelectSeq(indexPatterns, LAMBDA pattern : pattern.id # indexPattern.id)

\* getIdsWithTitle answers call i: defaultIndex is removed, set to the first
\* other data view if there is one, and dataViews.delete is called
IdsResolve(i) ==
  /\ i \in DOMAIN removals
  /\ removals[i].pc = "awaitIds"
  /\ removals' = [removals EXCEPT ![i].pc = "deleting",
                                  ![i].indexPatterns = savedDataViews]
  /\ uiDefaultIndex' = IF Len(otherPatterns(savedDataViews)) # 0
                       THEN otherPatterns(savedDataViews)[1].id
                       ELSE Unset
  /\ calls' = calls \cup
       {[call |-> i, fn |-> "uiSettings.remove"],
        [call |-> i, fn |-> "dataViews.delete"]} \cup
       (IF Len(otherPatterns(savedDataViews)) # 0
        THEN {[call |-> i, fn |-> "uiSettings.set"]} ELSE {})
  /\ UNCHANGED <<now, rowVars, hookVars, tableVars, tabsVars, savedDataViews,
                 defaultIndex, userEditPermission, route>>

\* getIdsWithTitle fails: doRemove ends at its await
IdsReject(i) ==
  /\ i \in DOMAIN removals
  /\ removals[i].pc = "awaitIds"
  /\ removals' = [removals EXCEPT ![i].pc = "failed"]
  /\ UNCHANGED <<now, rowVars, hookVars, tableVars, tabsVars, savedDataViews,
                 uiDefaultIndex, defaultIndex, userEditPermission, route, calls>>

\* dataViews.delete of call i is done: history.push('')
DeleteResolves(i) ==
  /\ i \in DOMAIN removals
  /\ removals[i].pc = "deleting"
  /\ removals' = [removals EXCEPT ![i].pc = "done"]
  /\ savedDataViews' = SelectSeq(savedDataViews, LAMBDA v : v.id # indexPattern.id)
  /\ route' = ""
  /\ UNCHANGED <<now, rowVars, hookVars, tableVars, tabsVars, uiDefaultIndex,
                 defaultIndex, userEditPermission, calls>>

\* dataViews.delete of call i fails: nothing is pushed
DeleteRejects(i) ==
  /\ i \in DOMAIN removals
  /\ removals[i].pc = "deleting"
  /\ removals' = [removals EXCEPT ![i].pc = "failed"]
  /\ UNCHANGED <<now, rowVars, hookVars, tableVars, tabsVars, savedDataViews,
                 uiDefaultIndex, defaultIndex, userEditPermission, route, calls>>

EditIdle ==
  /\ savedDataViews = <<indexPattern>>
  /\ uiDefaultIndex = Unset
  /\ defaultIndex = Unset
  /\ userEditPermission = TRUE
  /\ route = "patterns/logs"
  /\ removals = <<>>
  /\ calls = {}

InitEdit ==
  /\ now = Clock0
  /\ RowIdle
  /\ HookIdle
  /\ TableIdle
  /\ TabsIdle
  /\ savedDataViews \in Stores
  /\ uiDefaultIndex \in {Unset} \cup {savedDataViews[i].id : i \in DOMAIN savedDataViews}
  /\ defaultIndex = uiDefaultIndex
  /\ userEditPermission \in BOOLEAN
  /\ route = "patterns/logs"
  /\ removals = <<>>
  /\ calls = {}

NextEdit ==
  \/ setDefaultPattern
  \/ removePattern
  \/ \E i \in 1..MaxRemovals : \E isConfirmed \in BOOLEAN : ConfirmResolves(i, isConfirmed)
  \/ \E i \in 1..MaxRemovals : IdsResolve(i)
  \/ \E i \in 1..MaxRemovals : IdsReject(i)
  \/ \E i \in 1..MaxRemovals : DeleteResolves(i)
  \/ \E i \in 1..MaxRemovals : DeleteRejects(i)

SpecEdit == InitEdit /\ [][NextEdit]_vars

InitTabs ==
  /\ now = Clock0
  /\ RowIdle
  /\ HookIdle
  /\ TableIdle
  /\ TabsIdle
  /\ EditIdle

NextTabs ==
  \/ \E fieldName \in FieldNames : openFieldEditor(fieldName)
  \/ Unmount

SpecTabs == InitTabs /\ [][NextTabs]_vars

PageIdle == TableIdle /\ TabsIdle /\ EditIdle

InitTable ==
  /\ now = Clock0
  /\ RowIdle
  /\ HookIdle
  /\ TabsIdle
  /\ EditIdle
  /\ items \in SeqUpTo(ScriptedFieldItem, MaxItems)
  /\ triggered = <<>>
  /\ editFieldCalls = <<>>
  /\ deleteFieldCalls = <<>>

NextTable == \E k \in DOMAIN actions : \E i \in 1..MaxItems : Trigger(k, i)

SpecTable == InitTable /\ [][NextTable]_vars

Init ==
  /\ now = Clock0
  /\ RowIdle
  /\ HookInit
  /\ PageIdle

Next ==
  \/ Tick
  \/ \E t \in TimeRanges : SetTimerange(t)
  \/ \E f \in FilterClauses : SetFilterClauseDsl(f)
  \/ \E p \in 0..MaxPage : setCurrentPageIndex(p)
  \/ \E s \in SortStates : setSortState(s)
  \/ \E r \in inflight : \E resp \in Responses : Resolve(r, resp)
  \/ \E r \in inflight : Reject(r)

Spec == Init /\ [][Next]_vars

InitRow ==
  /\ now = Clock0
  /\ series \in MetricsExplorerSeries
  /\ row = NotComputed
  /\ prevRow = NotComputed
  /\ rowAt = 0
  /\ prevRowAt = 0
  /\ HookIdle
  /\ PageIdle

NextRow == Tick \/ Transform

SpecRow == InitRow /\ [][NextRow]_vars

----------------------------------------------------------------------------
(* What the claims speak of, read off the series itself *)

Computed == row # NotComputed

Rows == series.rows

\* the rows that report a value in column col
Reporting(col) == {i \in 1..Len(Rows) : Rows[i][col] # Null}

MaxOf(S) == CHOOSE m \in S : \A x \in S : x <= m

RECURSIVE SumOf(_, _)
SumOf(col, S) ==
  IF S = {} THEN Num(0)
  ELSE LET i == CHOOSE x \in S : TRUE
       IN NumAdd(Rows[i][col], SumOf(col, S \ {i}))

KeyAt(i) ==
  IF series.keys = Undefined THEN Undefined
  ELSE IF i <= Len(series.keys.arr) THEN series.keys.arr[i] ELSE Undefined

AllNullRow == [metric_0 |-> Null, metric_1 |-> Null, metric_2 |-> Null]

\* the series with every column but col emptied
OnlyColumn(col) ==
  [keys |-> series.keys,
   rows |-> [i \in 1..Len(Rows) |-> [AllNullRow EXCEPT ![col] = Rows[i][col]]]]

ResultField == [metric_0 |-> "uptime", metric_1 |-> "averageCpuUsagePercent",
                metric_2 |-> "averageMemoryUsageMegabytes"]

Columns == {"metric_0", "metric_1", "metric_2"}

----------------------------------------------------------------------------
(* C1: a series with zero rows gives a row whose uptime, averageCpuUsagePercent
   and averageMemoryUsageMegabytes are null and whose id and name are the first
   and the second entry of the series keys. *)
C1_ZeroRowsGiveNullRow ==
  (Computed /\ Len(Rows) = 0) =>
    /\ row # TypeError
    /\ row.uptime = Null
    /\ row.averageCpuUsagePercent = Null
    /\ row.averageMemoryUsageMegabytes = Null
    /\ row.id = KeyAt(1)
    /\ row.name = KeyAt(2)

C1_Witness ==
  /\ Computed
  /\ Len(Rows) = 0
  /\ series.keys # Undefined
  /\ row.id = Str("uid-1")
  /\ row.name = Str("pod-a")

(* C2: uptime is the clock reading minus the start time of the last row, in
   sequence order, that reports a start time; it is null when no row reports
   one. *)
C2_UptimeFromLastStartTime ==
  Computed =>
    /\ row # TypeError
    /\ IF Reporting("metric_0") = {}
       THEN row.uptime = Null
       ELSE row.uptime =
              NumSub(Num(rowAt), Rows[MaxOf(Reporting("metric_0"))].metric_0)

\* the last start time is neither the first nor the largest
C2_Witness ==
  /\ Computed
  /\ Len(Rows) = 2
  /\ Rows[1].metric_0 = Num(500)
  /\ Rows[2].metric_0 = Num(100)
  /\ row.uptime = Num(rowAt - 100)

(* C3: averageMemoryUsageMegabytes is the floor of the mean of the non-null
   memory values divided by 1,000,000, null rows counting neither in the sum
   nor in the count; it is null when no row has a memory value. *)
C3_MemoryIsFlooredMeanInMegabytes ==
  Computed =>
    /\ row # TypeError
    /\ LET S == Reporting("metric_2") IN
       IF S = {}
       THEN row.averageMemoryUsageMegabytes = Null
       ELSE row.averageMemoryUsageMegabytes =
              Num(SumOf("metric_2", S).num \div (Cardinality(S) * 1000000))

\* 2,500,000 bytes alone are 2 megabytes: the floor, not the nearest
C3_Witness ==
  /\ Computed
  /\ Len(Rows) = 2
  /\ Rows[1].metric_2 = Null
  /\ Rows[2].metric_2 = Num(2500000)
  /\ row.averageMemoryUsageMegabytes = Num(2)

(* C4: averageCpuUsagePercent is the mean of the non-null CPU ratios times 100,
   null rows counting neither in the sum nor in the count; it is null when no
   row has a CPU value. *)
C4_CpuIsMeanTimesHundred ==
  Computed =>
    /\ row # TypeError
    /\ LET S == Reporting("metric_1") IN
       IF S = {}
       THEN row.averageCpuUsagePercent = Null
       ELSE row.averageCpuUsagePercent =
              NumDiv(NumMul(Num(100), SumOf("metric_1", S)), Num(Cardinality(S)))

\* [0.1, 0.3] gives 20
C4_Witness ==
  /\ Computed
  /\ Len(Rows) = 2
  /\ Rows[1].metric_1 = Rat(1, 10)
  /\ Rows[2].metric_1 = Rat(3, 10)
  /\ row.averageCpuUsagePercent = Num(20)

(* C5: in a non-empty series, a metric that is null in every row gives a null
   field, and each other field is what its own column alone gives, whatever
   the other columns hold. *)
C5_MissingMetricLeavesOthersAlone ==
  (Computed /\ Len(Rows) > 0) =>
    /\ row # TypeError
    /\ \A c \in Columns :
         Reporting(c) = {} =>
           /\ row[ResultField[c]] = Null
           /\ \A d \in Columns \ {c} :
                row[ResultField[d]] =
                  seriesToPodNodeMetricsRow(OnlyColumn(d), rowAt)[ResultField[d]]

\* no start time at all, and CPU and memory both reported
C5_Witness ==
  /\ Computed
  /\ Len(Rows) > 0
  /\ Reporting("metric_0") = {}
  /\ Reporting("metric_1") # {}
  /\ Reporting("metric_2") # {}
  /\ row.uptime = Null
  /\ row.averageCpuUsagePercent # Null
  /\ row.averageMemoryUsageMegabytes # Null

(* C6: recomputing the row from an unchanged series gives an identical row
   on every recomputation, for every field, uptime included.  (The series
   never changes under SpecRow.) *)
C6_RecomputedRowIsIdentical ==
  (Computed /\ prevRow # NotComputed) => row = prevRow

(* C6, amended: recomputing the row from an unchanged series gives the same
   id, name, averageCpuUsagePercent and averageMemoryUsageMegabytes; uptime is
   null both times or grows by exactly the time the clock has advanced between
   the two computations, so it is identical only when the clock reads the
   same. *)
C6_RecomputedRowDiffersOnlyByClock ==
  (Computed /\ prevRow # NotComputed) =>
    /\ row # TypeError
    /\ prevRow # TypeError
    /\ row.id = prevRow.id
    /\ row.name = prevRow.name
    /\ row.averageCpuUsagePercent = prevRow.averageCpuUsagePercent
    /\ row.averageMemoryUsageMegabytes = prevRow.averageMemoryUsageMegabytes
    /\ (row.uptime = Null) <=> (prevRow.uptime = Null)
    /\ row.uptime # Null =>
         NumSub(row.uptime, prevRow.uptime) = Num(rowAt - prevRowAt)

\* two computations with the clock advanced in between
C6_Witness ==
  /\ Computed
  /\ prevRow # NotComputed
  /\ rowAt > prevRowAt
  /\ row.uptime # Null
  /\ row.averageCpuUsagePercent # Null

(* C7: a series of one or more rows whose every metric value is null gives
   the row a series with the same keys and zero rows gives, all three metrics
   null and id and name from the keys, and no error. *)
C7_AllNullRowsAsZeroRows ==
  (Computed /\ Len(Rows) > 0 /\ \A c \in Columns : Reporting(c) = {}) =>
    /\ row # TypeError
    /\ row = seriesToPodNodeMetricsRow([keys |-> series.keys, rows |-> <<>>], rowAt)
    /\ row.uptime = Null
    /\ row.averageCpuUsagePercent = Null
    /\ row.averageMemoryUsageMegabytes = Null
    /\ row.id = KeyAt(1)
    /\ row.name = KeyAt(2)

C7_Witness ==
  /\ Computed
  /\ Len(Rows) = 2
  /\ \A c \in Columns : Reporting(c) = {}
  /\ row.id = Str("uid-1")
  /\ row.uptime = Null

(* C10: seriesToPodNodeMetricsRow raises no error for any series, a series
   without key tuple (id and name are then undefined) and a series with zero
   rows included. *)
C10_NoErrorForAnySeries ==
  Computed =>
    /\ row # TypeError
    /\ series.keys = Undefined => (row.id = Undefined /\ row.name = Undefined)

C10_Witness ==
  /\ Computed
  /\ series.keys = Undefined
  /\ Len(Rows) = 0
  /\ row.id = Undefined

----------------------------------------------------------------------------
(* C8: once every fetch has settled, the data the hook exposes is the answer
   to the fetch issued for the most recent time range, filter, sort and page,
   never that of a superseded fetch, whatever the order of the answers. *)
C8_LatestWins ==
  inflight = {} =>
    /\ status \in {"Ready", "Failed"}
    /\ status = "Ready" =>
         /\ dataFor.id = latest
         /\ dataFor.args.timerange = timerange
         /\ dataFor.args.metricsExplorerOptions.filterQuery = filterClauseDsl
         /\ dataFor.args.sortState = sortState
         /\ dataFor.args.currentPageIndex = currentPageIndex
    /\ status = "Failed" => usePodMetricsTable.data = <<>>

\* an answer to a superseded fetch arrived after the answer to the latest one
C8_Witness ==
  /\ inflight = {}
  /\ status = "Ready"
  /\ latest = MaxRequests
  /\ lastSettled < latest
  /\ dataFor.id = latest
  /\ currentPageIndex # 0
  /\ Len(usePodMetricsTable.data) > 0

(* C9: when the metrics query fails, the hook is left with isLoading false and
   no rows; it exposes no error object and issues no retry. *)
C9_FailureIsNoData ==
  status = "Failed" =>
    /\ usePodMetricsTable.isLoading = FALSE
    /\ usePodMetricsTable.data = <<>>
    /\ DOMAIN usePodMetricsTable =
         {"currentPageIndex", "data", "isLoading", "sortState", "timerange"}
    /\ \A r \in inflight : r.id < latest

\* the fetch for changed parameters failed
C9_Witness ==
  /\ status = "Failed"
  /\ latest > 1
  /\ inflight = {}
  /\ usePodMetricsTable.data = <<>>

(* C11: the hook starts with currentPageIndex = 0 and sortState =
   (averageCpuUsagePercent, desc); setCurrentPageIndex(p) makes the exposed
   currentPageIndex p and leaves sortState alone; setSortState(s) makes the
   exposed sortState s and leaves currentPageIndex alone (no reset of the
   page); the timerange returned is always the timerange passed in. *)
C11_SettersAndInitialState ==
  /\ usePodMetricsTable.currentPageIndex = 0
  /\ usePodMetricsTable.sortState =
       [field |-> "averageCpuUsagePercent", direction |-> "desc"]
  /\ [](usePodMetricsTable.timerange = timerange)
  /\ [][lastCall' # lastCall =>
          /\ lastCall'.op = "setCurrentPageIndex" =>
               /\ Num(usePodMetricsTable.currentPageIndex') = lastCall'.arg
               /\ usePodMetricsTable.sortState' = usePodMetricsTable.sortState
          /\ lastCall'.op = "setSortState" =>
               /\ usePodMetricsTable.sortState' = lastCall'.arg
               /\ usePodMetricsTable.currentPageIndex'
                    = usePodMetricsTable.currentPageIndex]_vars

\* the sort was changed on a later page
C11_Witness ==
  /\ lastCall.op = "setSortState"
  /\ usePodMetricsTable.sortState = lastCall.arg
  /\ usePodMetricsTable.currentPageIndex = MaxPage

----------------------------------------------------------------------------
(* C12: for every item whose isUserEditable is false, neither the edit nor the
   delete action of the scripted fields Table is available, so neither
   editField nor deleteField is ever called for such an item. *)
C12_ReadOnlyItemsHaveNoActions ==
  /\ \A i \in DOMAIN items : \A k \in DOMAIN actions :
       ~items[i].isUserEditable => ~available(k, items[i])
  /\ \A j \in DOMAIN editFieldCalls : editFieldCalls[j].isUserEditable
  /\ \A j \in DOMAIN deleteFieldCalls : deleteFieldCalls[j].isUserEditable

\* the items of the tests, with item 1 edited and deleted
C12_Witness ==
  /\ items = testItems
  /\ editFieldCalls = <<testItems[1]>>
  /\ deleteFieldCalls = <<testItems[1]>>

TriggeredOf(k) == SelectSeq(triggered, LAMBDA t : t.action = k)

(* C13: triggering the first action of the actions column calls editField and
   triggering the second calls deleteField; neither calls the other
   callback. *)
C13_EditThenDeleteAction ==
  /\ editFieldCalls = [j \in DOMAIN TriggeredOf(1) |-> TriggeredOf(1)[j].item]
  /\ deleteFieldCalls = [j \in DOMAIN TriggeredOf(2) |-> TriggeredOf(2)[j].item]

C13_Witness ==
  /\ Len(triggered) = 2
  /\ triggered[1].action = 1
  /\ triggered[2].action = 2
  /\ Len(editFieldCalls) = 1
  /\ Len(deleteFieldCalls) = 1

----------------------------------------------------------------------------
(* C14: when Tabs unmounts, the close handler returned by the most recent
   dataViewFieldEditor.openEditor call is invoked, whatever openFieldEditor
   calls came before; if the editor was never opened, nothing is invoked. *)
C14_UnmountClosesLastEditor ==
  /\ tabsMounted => closedEditors = <<>>
  /\ ~tabsMounted =>
       closedEditors = IF openEditorCalls = <<>> THEN <<>>
                       ELSE <<Len(openEditorCalls)>>

\* unmounted after several editors were opened
C14_Witness ==
  /\ ~tabsMounted
  /\ Len(openEditorCalls) = 3
  /\ closedEditors = <<3>>

----------------------------------------------------------------------------
\* the removePattern calls that made some service call
Callers == {c.call : c \in calls}

\* call i takes the step from pc a to pc b
Steps(i, a, b) ==
  /\ i \in DOMAIN removals
  /\ i \in DOMAIN removals'
  /\ removals[i].pc = a
  /\ removals'[i].pc = b

Holds(dataViews) == \E k \in DOMAIN dataViews : dataViews[k].id = indexPattern.id

(* C15: removePattern calls dataViews.delete, uiSettings.remove and
   uiSettings.set only after its confirmation dialog answered true; when the
   dialog answers false, the stored data views, the defaultIndex setting
   and the route stay as they were, then and for the rest of that call. *)
C15_NothingWithoutConfirmation ==
  /\ [](\A i \in Callers : /\ removals[i].isConfirmed
                           /\ removals[i].pc \notin {"confirming", "cancelled"})
  /\ [][\A i \in 1..Len(removals) :
          /\ Steps(i, "confirming", "cancelled") =>
               /\ ~removals'[i].isConfirmed
               /\ UNCHANGED <<savedDataViews, uiDefaultIndex, route, calls>>
          /\ removals[i].pc = "cancelled" => removals'[i] = removals[i]
          /\ (Steps(i, "confirming", "awaitIds") \/ Steps(i, "confirming", "deleting"))
               => removals'[i].isConfirmed]_vars

\* one dialog was dismissed, the next confirmed and its removal went through
C15_Witness ==
  /\ Len(removals) = 2
  /\ removals[1].pc = "cancelled"
  /\ removals[2].pc = "done"
  /\ Callers = {2}
  /\ [call |-> 2, fn |-> "uiSettings.set"] \in calls
  /\ ~Holds(savedDataViews)
  /\ route = ""

\* the id of the first of dataViews that is not the data view of the page
FirstOtherId(dataViews) ==
  IF \E k \in DOMAIN dataViews : dataViews[k].id # indexPattern.id
  THEN dataViews[CHOOSE k \in DOMAIN dataViews :
                   /\ dataViews[k].id # indexPattern.id
                   /\ \A j \in 1..(k - 1) : dataViews[j].id = indexPattern.id].id
  ELSE Unset

(* C16: a confirmed removePattern on the data view that is the default goes
   on to reassign defaultIndex, and where it does the setting becomes the id
   of the first other data view getIdsWithTitle returned, or has no value
   when there is no other, and so never the id under removal; no step of a
   removePattern call changes defaultIndex while the data view of the page is
   not the default. *)
C16_DefaultIndexReassigned ==
  [][\A i \in 1..Len(removals) :
       /\ (Steps(i, "confirming", "awaitIds") \/ Steps(i, "confirming", "deleting")) =>
            /\ uiDefaultIndex = indexPattern.id => removals'[i].pc = "awaitIds"
            /\ uiDefaultIndex' = uiDefaultIndex
       /\ Steps(i, "awaitIds", "deleting") =>
            /\ removals'[i].indexPatterns = savedDataViews
            /\ uiDefaultIndex' = FirstOtherId(removals'[i].indexPatterns)
            /\ uiDefaultIndex' # indexPattern.id
       /\ (removals'[i] # removals[i] /\ uiDefaultIndex # indexPattern.id) =>
            uiDefaultIndex' = uiDefaultIndex]_vars

\* the default data view was listed first; once removed, the second is the default
C16_Witness ==
  /\ Len(removals) = 1
  /\ removals[1].pc = "done"
  /\ removals[1].defaultIndex = indexPattern.id
  /\ Len(removals[1].indexPatterns) = 3
  /\ removals[1].indexPatterns[1] = indexPattern
  /\ uiDefaultIndex = removals[1].indexPatterns[2].id
  /\ ~Holds(savedDataViews)

====
